---- MODULE Spec2Model ----
(***************************************************************************)
(* Holodeck control side: HolodeckEnvironment (environments.py) driving   *)
(* the remote engine through the client's semaphore handshake, the        *)
(* command queue, and the Shmem shared-memory buffers (shmem.py).         *)
(*                                                                         *)
(* HolodeckClient (release/acquire), CommandCenter (enqueue/handle_buffer/ *)
(* clear) and check_process_alive are modelled from the design document;  *)
(* the engine is the external remote process.                             *)
(***************************************************************************)
EXTENDS Integers, Sequences, FiniteSets, TLC

\* ---------------------------------------------------------------- bounds
MaxCalls == 2        \* user calls (tick/step/reset/enqueue/act) per run
MaxNumTicks == 2     \* largest num_ticks / ticks argument of tick() and step()
MaxPreStart == 1     \* largest pre_start_steps
MaxTickLimit == 2    \* largest finite max_ticks
MaxCmds == 1         \* commands the user may leave pending in the queue
MaxLimitCalls == 3   \* user calls per run when only the tick counter is followed

\* sys.maxsize, the default of max_ticks: a value no tick counter reaches
sys_maxsize == 2147483647

\* ------------------------------------------------------------- variables
VARIABLES
  os_name,             \* os.name
  start_world,         \* constructor argument
  show_viewport,       \* constructor argument
  _pre_start_steps,    \* self._pre_start_steps
  _max_ticks,          \* self._max_ticks
  _initial_agent_defs, \* self._initial_agent_defs
  pc,                  \* position of the control side
  stack,               \* call stack of the control side, outermost first
  _total_ticks,        \* self._total_ticks
  _initial_reset,      \* self._initial_reset
  _reset_ptr,          \* the RESET shared buffer, self._reset_ptr[0]
  agents,              \* self.agents: the names of the agents
  action_buf,          \* the agents' shared action buffers
  _agent,              \* self._agent (main agent name, or None)
  has_world_process,   \* hasattr(self, "_world_process")
  queue,               \* CommandCenter: pending commands
  command_buffer,      \* the command shared buffer, as last flushed
  outstanding,         \* release signals not yet matched by a successful acquire
  failed,              \* the handshake channel is Failed
  sem1,                \* "control has data ready" signals the engine has not taken
  sem2,                \* "engine finished the tick" signals not yet acquired
  loading_sem,         \* the one-shot loading semaphore
  engine_pc,           \* the remote process
  last_error,          \* how the last call of the control side ended
  calls,               \* user calls made so far
  max_calls,           \* user calls the run is followed for
  h,                   \* history of the run, read by the properties only
  qh,                  \* history of the command queue used on its own
  fs,                  \* shared memory: object name -> region
  mem,                 \* shared memory: the bytes of each region
  handles,             \* the Shmem objects constructed so far
  shm_result,          \* what the last Shmem operation returned or raised
  sh,                  \* history of the Shmem operations
  _exited,             \* hasattr(self, "_exited")
  exit_stack,          \* the running calls of __on_exit__, outermost first
  exit_phase,          \* the interpreter: running, atexit (shutting down), done
  ctor_done,           \* how far __init__ got: loading_failed, acquire_failed
                       \* or complete
  xh                   \* history of the teardown, read by the properties only

envVars == <<os_name, start_world, show_viewport, _pre_start_steps, _max_ticks,
             _initial_agent_defs, pc, stack, _total_ticks, _initial_reset,
             _reset_ptr, agents, action_buf, _agent, has_world_process, queue,
             command_buffer, outstanding, failed, sem1, sem2, loading_sem,
             engine_pc, last_error, calls, max_calls, h>>

cfgVars == <<os_name, start_world, show_viewport, _pre_start_steps, _max_ticks,
             _initial_agent_defs, max_calls>>
chanVars == <<outstanding, failed, sem1, sem2>>
agentVars == <<agents, action_buf, _agent>>
queueVars == <<queue, command_buffer>>

shmVars == <<fs, mem, handles, shm_result, sh>>
exitVars == <<_exited, exit_stack, exit_phase, ctor_done, xh>>
unitVars == <<qh, shmVars, exitVars>>

None == "None"
AgentNames == {"a"}
Actions == {1}
\* agent definitions: one the engine must spawn and that is the main agent, one
\* that exists in the world already
AgentDefs == {[name |-> "a", existing |-> FALSE, is_main_agent |-> TRUE],
              [name |-> "a", existing |-> TRUE, is_main_agent |-> FALSE]}

\* the history read by the properties
HistoryInit ==
  [ flushes_since_rel |-> 0,    \* handle_buffer calls since the last release call
    acq_attempts |-> 0,         \* _client.acquire() calls since the last release call
    timeouts |-> 0,             \* acquires that timed out
    alive_at_timeout |-> FALSE, \* was the remote process alive at the last timeout
    used_after_timeout |-> FALSE, \* release() or acquire() was called after a timeout
    reset_with_pending |-> FALSE, \* a reset() was called with commands pending
    sent_stale |-> FALSE,       \* a command pending at a reset() call was flushed
    second_rel |-> "none",      \* how the last release() called with a release
                                \* outstanding ended
    reported |-> 0,             \* the count reset() last reported as discarded
    reset_cycles |-> 0,         \* handshake cycles completed by the last reset()
    user_cycles |-> 0,          \* cycles completed by tick()/step() of the user
    acq_minus_rel |-> 0,        \* successful acquires less releases signalled
    call_n |-> 0,               \* num_ticks / ticks of the last tick()/step()
    call_cycles |-> 0,          \* cycles that call has completed
    ret |-> "None",             \* state / last_state of that call
                                \* since the last reset() call
    loaded |-> FALSE,           \* the loading signal has been observed
    load_timeout |-> FALSE ]    \* the wait for the loading signal timed out

\* ------------------------------------------------ HolodeckClient (channel)
\* release(): signal the remote process, or reject a second release
release_unguarded(out, fl) == TRUE
release_ok(out, fl) == out = 0 /\ ~fl

\* check_process_alive(pid)
check_process_alive == engine_pc # "dead" /\ engine_pc # "none"

\* --------------------------------------------------------- CommandCenter
\* a queued command; stale marks one that was pending when reset() was called
Command(tag) == [tag |-> tag, stale |-> FALSE]
Stale(q) == \E i \in 1..Len(q) : q[i].stale
MarkStale(q) == [i \in 1..Len(q) |-> [q[i] EXCEPT !.stale = TRUE]]
\* enqueue_command, queue_size, clear, and what handle_buffer writes
enqueue_command(q, c) == Append(q, c)
queue_size(q) == Len(q)
clear(q) == <<>>
flushed_buffer(q) == q

\* ------------------------------------------------------------------ Init
\* the object at the first statement of __init__, its arguments stored
EnvStart ==
  /\ pc = IF start_world THEN "start_process" ELSE "client_init"
  /\ stack = <<[fn |-> "ctor", k |-> 0, a |-> 0]>>
  /\ _total_ticks = 0
  /\ _initial_reset = FALSE
  /\ _reset_ptr = FALSE
  /\ agents = {}
  /\ action_buf = [n \in AgentNames |-> 0]
  /\ _agent = None
  /\ has_world_process = FALSE
  /\ queue = <<>>
  /\ command_buffer = <<>>
  /\ outstanding = 0
  /\ failed = FALSE
  /\ sem1 = 0
  /\ sem2 = 0
  /\ loading_sem = 0
  /\ engine_pc = IF start_world THEN "none" ELSE "loading"
  /\ last_error = "none"
  /\ calls = 0
  /\ h = HistoryInit

EnvInit ==
  /\ os_name \in {"posix", "nt"}
  /\ start_world \in BOOLEAN
  /\ show_viewport \in (IF os_name = "posix" THEN BOOLEAN ELSE {TRUE})
  /\ _pre_start_steps \in 0..MaxPreStart
  /\ _max_ticks \in (1..MaxTickLimit) \cup {sys_maxsize}
  /\ _initial_agent_defs \in {<<>>} \cup {<<d>> : d \in AgentDefs}
  /\ max_calls = MaxCalls
  /\ EnvStart

\* an exception nobody catches: it unwinds every frame.  A constructor that
\* raises hands no object to the caller.
Raise(e) ==
  /\ pc' = IF stack[1].fn = "ctor" THEN "ctor_failed" ELSE "idle"
  /\ stack' = <<>>
  /\ last_error' = e

Frame(fn, k, a) == [fn |-> fn, k |-> k, a |-> a]
Top(stk) == stk[Len(stk)]
Pop(stk) == SubSeq(stk, 1, Len(stk) - 1)
SetK(stk, k) == [stk EXCEPT ![Len(stk)].k = k]

\* ------------------------------------------------------------ constructor
\* __linux_start_process__ / __windows_start_process__ up to atexit.register
StartProcess ==
  /\ pc = "start_process"
  /\ has_world_process' = TRUE
  /\ engine_pc' = "loading"
  /\ pc' = "loading_wait"
  /\ UNCHANGED <<unitVars, cfgVars, chanVars, agentVars, queueVars, stack, _total_ticks,
                 _initial_reset, _reset_ptr, loading_sem, last_error, calls, h>>

\* loading_semaphore.acquire(10) returns
LoadingAcquired ==
  /\ pc = "loading_wait"
  /\ loading_sem > 0
  /\ loading_sem' = loading_sem - 1
  /\ pc' = "client_init"
  /\ h' = [h EXCEPT !.loaded = TRUE]
  /\ UNCHANGED <<unitVars, cfgVars, chanVars, agentVars, queueVars, stack, _total_ticks,
                 _initial_reset, _reset_ptr, has_world_process, engine_pc,
                 last_error, calls>>

LoadingTimeoutIgnored ==
  /\ pc = "loading_wait"
  /\ loading_sem = 0
  /\ pc' = "client_init"
  /\ h' = [h EXCEPT !.load_timeout = TRUE]
  /\ UNCHANGED <<unitVars, cfgVars, chanVars, agentVars, queueVars, stack, _total_ticks,
                 _initial_reset, _reset_ptr, has_world_process, loading_sem,
                 engine_pc, last_error, calls>>

\* loading_semaphore.acquire(10) raises BusyError: HolodeckException("Timed
\* out waiting for binary to load")
LoadingTimeout ==
  /\ pc = "loading_wait"
  /\ loading_sem = 0
  /\ Raise("load_timeout")
  /\ h' = [h EXCEPT !.load_timeout = TRUE]
  /\ UNCHANGED <<unitVars, cfgVars, chanVars, agentVars, queueVars, _total_ticks,
                 _initial_reset, _reset_ptr, has_world_process, loading_sem,
                 engine_pc, calls>>

\* __init__: the client, the command center, the RESET buffer, the agents
ClientInit ==
  /\ pc = "client_init"
  /\ _reset_ptr' = FALSE
  /\ agents' = {}
  /\ _agent' = None
  /\ pc' = "acquire"
  /\ UNCHANGED <<unitVars, cfgVars, chanVars, queueVars, action_buf, stack, _total_ticks,
                 _initial_reset, has_world_process, loading_sem, engine_pc,
                 last_error, calls, h>>

\* __init__: should_render_viewport(False) on posix, then the first reset()
CtorReset ==
  /\ pc = "ctor_reset"
  /\ IF os_name = "posix" /\ ~show_viewport
       THEN queue' = enqueue_command(queue, Command("RenderViewport"))
       ELSE UNCHANGED queue
  /\ _initial_reset' = FALSE
  /\ stack' = Append(stack, Frame("reset", 0, 0))
  /\ pc' = "reset_begin"
  /\ UNCHANGED <<unitVars, cfgVars, chanVars, agentVars, command_buffer, _total_ticks,
                 _reset_ptr, has_world_process, loading_sem, engine_pc,
                 last_error, calls, h>>

\* __init__: the signal handlers; the constructor returns
CtorSignals ==
  /\ pc = "ctor_signals"
  /\ pc' = "idle"
  /\ stack' = <<>>
  /\ UNCHANGED <<unitVars, cfgVars, chanVars, agentVars, queueVars, _total_ticks,
                 _initial_reset, _reset_ptr, has_world_process, loading_sem,
                 engine_pc, last_error, calls, h>>

\* ------------------------------------------------------------------ reset
\* the three ticks reset() runs before it clears the queue
ThrowawayTicks == 3

\* the body of tick()'s loop, and of step()'s, as the labels of its statements
TickBodyReleaseFirst == <<"release", "handle_buffer", "acquire", "check_max_tick">>
TickBody == <<"handle_buffer", "release", "acquire", "check_max_tick">>
StepBodyCapBeforeAcquire ==
  <<"step_act", "handle_buffer", "release", "check_max_tick", "acquire">>
StepBody == <<"step_act", "handle_buffer", "release", "acquire", "check_max_tick">>
Body(fn) == IF fn = "step" THEN StepBody ELSE TickBody
NextLabel(fn, l) ==
  LET b == Body(fn)
      i == CHOOSE j \in 1..Len(b) : b[j] = l
  IN b[i + 1]

\* what reset() writes to self._reset_ptr[0]
ResetFlagNotRaised == FALSE
ResetFlag == TRUE

\* reset(): the flag, clear_action, the counter, and the first tick() call
\* what reset() writes to self._initial_reset
InitialResetNotSet == FALSE
InitialReset == TRUE

ResetBegin ==
  /\ pc = "reset_begin"
  /\ _initial_reset' = InitialReset
  /\ _reset_ptr' = ResetFlag
  /\ action_buf' = [n \in AgentNames |-> IF n \in agents THEN 0 ELSE action_buf[n]]
  /\ _total_ticks' = _total_ticks - 4
  /\ stack' = Append(stack, Frame("tick", 1, 0))
  /\ pc' = TickBody[1]
  /\ queue' = MarkStale(queue)
  /\ h' = [h EXCEPT !.reset_with_pending = @ \/ queue # <<>>,
                    !.reset_cycles = 0, !.user_cycles = 0]
  /\ UNCHANGED <<unitVars, cfgVars, chanVars, command_buffer, agents, _agent,
                 has_world_process, loading_sem, engine_pc, last_error, calls>>

\* add_agent for each definition in turn; a duplicate name raises and leaves
\* what was added before it
RECURSIVE AddAgents(_, _)
AddAgents(defs, st) ==
  IF defs = <<>> \/ st.dup THEN st
  ELSE LET d == Head(defs) IN
    IF d.name \in st.agents THEN [st EXCEPT !.dup = TRUE]
    ELSE AddAgents(Tail(defs),
           [ agents |-> st.agents \cup {d.name},
             queue |-> IF d.existing THEN st.queue
                       ELSE enqueue_command(st.queue, Command("SpawnAgent")),
             main |-> IF d.is_main_agent THEN d.name ELSE st.main,
             dup |-> FALSE ])

\* the count reset() prints before clear(): the queue size, when it is not zero
DiscardReportOneLess(q) == IF queue_size(q) > 1 THEN queue_size(q) - 1 ELSE 0
DiscardReport(q) == IF queue_size(q) > 0 THEN queue_size(q) ELSE 0

\* self._total_ticks = -1 - self._pre_start_steps
TicksAfterClearNoOffset(pre) == 0 - pre
TicksAfterClear(pre) == -1 - pre

\* reset() after the three ticks: the counter, the warning, clear(), the agents,
\* and the first of the pre_start_steps + 1 ticks
ResetClear ==
  /\ pc = "reset_clear"
  /\ LET st == AddAgents(_initial_agent_defs,
                 [agents |-> {}, queue |-> clear(queue), main |-> _agent,
                  dup |-> FALSE])
     IN /\ agents' = st.agents
        /\ queue' = st.queue
        /\ _agent' = st.main
        /\ IF st.dup
             THEN Raise("duplicate_agent")
             ELSE /\ stack' = Append(stack, Frame("tick", 1, 0))
                  /\ pc' = TickBody[1]
                  /\ UNCHANGED last_error
  /\ _total_ticks' = TicksAfterClear(_pre_start_steps)
  /\ h' = [h EXCEPT !.reported = DiscardReport(queue)]
  /\ UNCHANGED <<unitVars, cfgVars, chanVars, action_buf, command_buffer, _initial_reset,
                 _reset_ptr, has_world_process, loading_sem, engine_pc, calls>>

\* for _ in range(self._pre_start_steps + 1): the ticks after the agents
StartTicksNoExtra(pre) == pre
StartTicks(pre) == pre + 1

\* where the control side goes on when a tick()/step() iteration has ended
\* for _ in range(n): does the loop go on after an iteration, k of them being
\* left with the one just run
MoreIterationsOffByOne(k) == k > 2
MoreIterations(k) == k > 1

AfterIteration(stk, pre) ==
  LET top == Top(stk) IN
  IF MoreIterations(top.k)
    THEN [pc |-> Body(top.fn)[1], stack |-> SetK(stk, top.k - 1)]
  ELSE IF Len(stk) = 1
    THEN [pc |-> "idle", stack |-> <<>>]
  ELSE \* the caller is reset()
    LET rest == Pop(stk)
        done == Top(rest).k + 1
    IN IF done = ThrowawayTicks
         THEN [pc |-> "reset_clear", stack |-> SetK(rest, done)]
       ELSE IF done < ThrowawayTicks + StartTicks(pre)
         THEN [pc |-> TickBody[1],
               stack |-> Append(SetK(rest, done), Frame("tick", 1, 0))]
       ELSE IF Len(rest) = 1
         THEN [pc |-> "idle", stack |-> <<>>]
       ELSE [pc |-> "ctor_signals", stack |-> Pop(rest)]

\* ------------------------------------------------------------ tick / step
\* step(): self._agent.act(action)
StepAct ==
  /\ pc = "step_act"
  /\ IF _agent # None
       THEN action_buf' = [action_buf EXCEPT ![_agent] = Top(stack).a]
       ELSE UNCHANGED action_buf
  /\ pc' = NextLabel("step", "step_act")
  /\ UNCHANGED <<unitVars, cfgVars, chanVars, queueVars, agents, _agent, stack,
                 _total_ticks, _initial_reset, _reset_ptr, has_world_process,
                 loading_sem, engine_pc, last_error, calls, h>>

\* CommandCenter.handle_buffer(): the queue goes to the command buffer and is
\* cleared
HandleBuffer ==
  /\ pc = "handle_buffer"
  /\ command_buffer' = flushed_buffer(queue)
  /\ queue' = clear(queue)
  /\ pc' = NextLabel(Top(stack).fn, "handle_buffer")
  /\ h' = [h EXCEPT !.flushes_since_rel = @ + 1,
                    !.sent_stale = @ \/ Stale(queue)]
  /\ UNCHANGED <<unitVars, cfgVars, chanVars, agentVars, stack, _total_ticks,
                 _initial_reset, _reset_ptr, has_world_process, loading_sem,
                 engine_pc, last_error, calls>>

\* is a reset() running
InReset(stk) == \E i \in 1..Len(stk) : stk[i].fn = "reset"

\* is the release called from a tick()/step() of the user, not of reset()
UserCycle(stk) == Len(stk) = 1 /\ stk[1].fn \in {"tick", "step"}
\* is the release the first one of a reset()
FirstOfReset(stk) == Len(stk) >= 2 /\ stk[Len(stk) - 1].fn = "reset"
                       /\ stk[Len(stk) - 1].k = 0

\* self._client.release()
Release ==
  /\ pc = "release"
  /\ IF release_ok(outstanding, failed)
       THEN /\ outstanding' = outstanding + 1
            /\ sem1' = sem1 + 1
            /\ pc' = NextLabel(Top(stack).fn, "release")
            /\ UNCHANGED <<stack, last_error>>
       ELSE /\ Raise("ProtocolViolation")
            /\ UNCHANGED <<outstanding, sem1>>
  /\ h' = [h EXCEPT
            !.second_rel = IF outstanding = 0 THEN @
                           ELSE IF release_ok(outstanding, failed) THEN "signalled"
                           ELSE "ProtocolViolation",
            !.used_after_timeout = @ \/ h.timeouts > 0,
            !.flushes_since_rel = 0,
            !.acq_attempts = 0,
            !.acq_minus_rel = IF release_ok(outstanding, failed) THEN @ - 1 ELSE @]
  /\ UNCHANGED <<unitVars, cfgVars, agentVars, queueVars, failed, sem2, _total_ticks,
                 _initial_reset, _reset_ptr, has_world_process, loading_sem,
                 engine_pc, calls>>

\* _acquire_catch_crash(): self._client.acquire() returns
AcquireOk ==
  /\ pc = "acquire"
  /\ sem2 > 0
  /\ sem2' = sem2 - 1
  /\ outstanding' = IF outstanding > 0 THEN outstanding - 1 ELSE 0
  /\ pc' = IF Top(stack).fn = "ctor" THEN "ctor_reset"
           ELSE NextLabel(Top(stack).fn, "acquire")
  /\ h' = [h EXCEPT !.acq_attempts = @ + 1,
                    !.used_after_timeout = @ \/ h.timeouts > 0,
                    !.reset_cycles = IF InReset(stack) THEN @ + 1 ELSE @,
                    !.user_cycles = IF UserCycle(stack) THEN @ + 1 ELSE @,
                    !.acq_minus_rel = @ + 1,
                    !.call_cycles = IF UserCycle(stack) THEN @ + 1 ELSE @,
                    !.ret = IF UserCycle(stack) THEN "state" ELSE @]
  /\ UNCHANGED <<unitVars, cfgVars, agentVars, queueVars, failed, sem1, stack,
                 _total_ticks, _initial_reset, _reset_ptr, has_world_process,
                 loading_sem, engine_pc, last_error, calls>>

\* _acquire_catch_crash(): the message of the HolodeckException it raises
TimeoutMessage ==
  IF has_world_process /\ check_process_alive THEN "stall" ELSE "crash"

\* a timeout that is swallowed: the caller goes on as if the tick had ended
AcquireTimeoutSwallowed ==
  /\ pc = "acquire"
  /\ sem2 = 0
  /\ failed' = TRUE
  /\ pc' = IF Top(stack).fn = "ctor" THEN "ctor_reset"
           ELSE NextLabel(Top(stack).fn, "acquire")
  /\ h' = [h EXCEPT !.timeouts = @ + 1, !.acq_attempts = @ + 1,
                    !.alive_at_timeout = check_process_alive,
                    !.used_after_timeout = @ \/ h.timeouts > 0]
  /\ UNCHANGED <<unitVars, cfgVars, agentVars, queueVars, outstanding, sem1, sem2, stack,
                 _total_ticks, _initial_reset, _reset_ptr, has_world_process,
                 loading_sem, engine_pc, last_error, calls>>

\* _acquire_catch_crash(): self._client.acquire() raises TimeoutError
AcquireTimeout ==
  /\ pc = "acquire"
  /\ sem2 = 0
  /\ failed' = TRUE
  /\ Raise(TimeoutMessage)
  /\ h' = [h EXCEPT !.timeouts = @ + 1, !.acq_attempts = @ + 1,
                    !.alive_at_timeout = check_process_alive,
                    !.used_after_timeout = @ \/ h.timeouts > 0]
  /\ UNCHANGED <<unitVars, cfgVars, agentVars, queueVars, outstanding, sem1, sem2,
                 _total_ticks, _initial_reset, _reset_ptr, has_world_process,
                 loading_sem, engine_pc, calls>>

\* check_max_tick(), then the next iteration or the return
CheckMaxTick ==
  /\ pc = "check_max_tick"
  /\ _total_ticks' = _total_ticks + 1
  /\ IF _total_ticks + 1 = _max_ticks
       THEN Raise("tick_limit")
       ELSE /\ pc' = AfterIteration(stack, _pre_start_steps).pc
            /\ stack' = AfterIteration(stack, _pre_start_steps).stack
            /\ UNCHANGED last_error
  /\ UNCHANGED <<unitVars, cfgVars, chanVars, agentVars, queueVars, _initial_reset,
                 _reset_ptr, has_world_process, loading_sem, engine_pc, calls, h>>

\* ------------------------------------------------------------- user calls
\* env.reset()
UserReset ==
  /\ pc = "idle"
  /\ calls < max_calls
  /\ calls' = calls + 1
  /\ last_error' = "none"
  /\ stack' = <<Frame("reset", 0, 0)>>
  /\ pc' = "reset_begin"
  /\ UNCHANGED <<unitVars, cfgVars, chanVars, agentVars, queueVars, _total_ticks,
                 _initial_reset, _reset_ptr, has_world_process, loading_sem,
                 engine_pc, h>>

\* env.tick(num_ticks) and env.step(action, ticks), up to the loop
Enter(fn, n, a) ==
  /\ pc = "idle"
  /\ calls < max_calls
  /\ calls' = calls + 1
  /\ IF ~_initial_reset
       THEN /\ last_error' = "no_reset"
            /\ UNCHANGED <<pc, stack, h>>
       ELSE /\ last_error' = "none"
            /\ h' = [h EXCEPT !.call_n = n, !.call_cycles = 0, !.ret = "None"]
            /\ IF n = 0
                 THEN UNCHANGED <<pc, stack>>
                 ELSE /\ stack' = <<Frame(fn, n, a)>>
                      /\ pc' = Body(fn)[1]
  /\ UNCHANGED <<unitVars, cfgVars, chanVars, agentVars, queueVars, _total_ticks,
                 _initial_reset, _reset_ptr, has_world_process, loading_sem,
                 engine_pc>>

UserTick == \E n \in 0..MaxNumTicks : Enter("tick", n, 0)

UserStep == \E n \in 0..MaxNumTicks, a \in Actions : Enter("step", n, a)

\* env.act(agent_name, action)
UserAct ==
  /\ pc = "idle"
  /\ calls < max_calls
  /\ \E n \in agents, a \in Actions :
       action_buf' = [action_buf EXCEPT ![n] = a]
  /\ calls' = calls + 1
  /\ last_error' = "none"
  /\ UNCHANGED <<unitVars, cfgVars, chanVars, queueVars, agents, _agent, pc, stack,
                 _total_ticks, _initial_reset, _reset_ptr, has_world_process,
                 loading_sem, engine_pc, h>>

\* move_viewport, should_render_viewport, set_render_quality,
\* send_world_command: _enqueue_command
CommandTags == {"RenderQuality", "CustomCommand"}

UserEnqueue ==
  /\ pc = "idle"
  /\ calls < max_calls
  /\ queue_size(queue) < MaxCmds
  /\ \E t \in CommandTags : queue' = enqueue_command(queue, Command(t))
  /\ calls' = calls + 1
  /\ last_error' = "none"
  /\ UNCHANGED <<unitVars, cfgVars, chanVars, agentVars, command_buffer, pc, stack,
                 _total_ticks, _initial_reset, _reset_ptr, has_world_process,
                 loading_sem, engine_pc, h>>

\* ------------------------------------------------------ the remote process
\* the engine has loaded: the loading signal, and the first "finished" signal
EngineLoaded ==
  /\ engine_pc = "loading"
  /\ engine_pc' = "waiting"
  /\ loading_sem' = IF start_world THEN loading_sem + 1 ELSE loading_sem
  /\ sem2' = sem2 + 1
  /\ UNCHANGED <<unitVars, cfgVars, agentVars, queueVars, outstanding, failed, sem1, pc,
                 stack, _total_ticks, _initial_reset, _reset_ptr,
                 has_world_process, last_error, calls, h>>

\* the engine takes a release: it reads the command buffer and consumes the
\* reset flag
EngineBeginTick ==
  /\ engine_pc = "waiting"
  /\ sem1 > 0
  /\ sem1' = sem1 - 1
  /\ _reset_ptr' = FALSE
  /\ engine_pc' = "ticking"
  /\ UNCHANGED <<unitVars, cfgVars, agentVars, queueVars, outstanding, failed, sem2, pc,
                 stack, _total_ticks, _initial_reset, has_world_process,
                 loading_sem, last_error, calls, h>>

\* the engine has written the state buffers and signals the end of the tick
EngineEndTick ==
  /\ engine_pc = "ticking"
  /\ engine_pc' = "waiting"
  /\ sem2' = sem2 + 1
  /\ UNCHANGED <<unitVars, cfgVars, agentVars, queueVars, outstanding, failed, sem1, pc,
                 stack, _total_ticks, _initial_reset, _reset_ptr,
                 has_world_process, loading_sem, last_error, calls, h>>

\* the engine process exits.  The control side observes the engine only while
\* it waits for it, so an exit at any other moment is the same as an exit at
\* its next wait.
EngineDie ==
  /\ engine_pc \in {"loading", "waiting", "ticking"}
  /\ pc \in {"loading_wait", "acquire"}
  /\ engine_pc' = "dead"
  /\ UNCHANGED <<unitVars, cfgVars, chanVars, agentVars, queueVars, pc, stack,
                 _total_ticks, _initial_reset, _reset_ptr, has_world_process,
                 loading_sem, last_error, calls, h>>

\* ------------------------------------------- the command queue on its own
MaxQueue == 2        \* longest queue built in QueueSpec

QueueHistoryInit ==
  [ last_op |-> "none",  \* the last operation on the queue
    size_before |-> 0,   \* queue_size just before the last clear()
    reported |-> 0,      \* the count reported as discarded by the last clear
    written |-> 0 ]      \* the number of commands the last flush wrote

QEnqueue ==
  /\ pc = "command_center"
  /\ queue_size(queue) < MaxQueue
  /\ \E t \in CommandTags \cup {"SpawnAgent"} :
       queue' = enqueue_command(queue, Command(t))
  /\ qh' = [qh EXCEPT !.last_op = "enqueue"]
  /\ UNCHANGED <<shmVars, exitVars, cfgVars, chanVars, agentVars, command_buffer, pc,
                 stack, _total_ticks, _initial_reset, _reset_ptr,
                 has_world_process, loading_sem, engine_pc, last_error, calls, h>>

QHandleBuffer ==
  /\ pc = "command_center"
  /\ command_buffer' = flushed_buffer(queue)
  /\ queue' = clear(queue)
  /\ qh' = [qh EXCEPT !.last_op = "flush", !.written = Len(flushed_buffer(queue))]
  /\ UNCHANGED <<shmVars, exitVars, cfgVars, chanVars, agentVars, pc, stack,
                 _total_ticks, _initial_reset, _reset_ptr, has_world_process,
                 loading_sem, engine_pc, last_error, calls, h>>

\* reset(): the warning with the count, then clear()
QResetClear ==
  /\ pc = "command_center"
  /\ queue' = clear(queue)
  /\ qh' = [qh EXCEPT !.last_op = "clear", !.size_before = queue_size(queue),
                      !.reported = DiscardReport(queue)]
  /\ UNCHANGED <<shmVars, exitVars, cfgVars, chanVars, agentVars, command_buffer, pc,
                 stack, _total_ticks, _initial_reset, _reset_ptr,
                 has_world_process, loading_sem, engine_pc, last_error, calls, h>>

\* ------------------------------------------------------- Shmem (shmem.py)
MaxHandles == 2      \* Shmem objects constructed per run

Dtypes == {"float32", "uint8", "bool", "byte"}

\* the buffers constructed in a run: the RESET flag of the environment, and
\* state buffers of three sessions, one name used with two shapes and dtypes;
\* names hold underscores (agent and sensor names), and so may a session id
Buffers ==
  { [uuid |-> "", name |-> "RESET", shape |-> <<1>>, dtype |-> "bool"],
    [uuid |-> "t1", name |-> "STATE_A", shape |-> <<4>>, dtype |-> "float32"],
    [uuid |-> "t1", name |-> "STATE_A", shape |-> <<2>>, dtype |-> "uint8"],
    [uuid |-> "", name |-> "STATE_A", shape |-> <<1, 2>>, dtype |-> "byte"],
    [uuid |-> "t1_STATE", name |-> "A", shape |-> <<4>>, dtype |-> "float32"] }

\* np.dtype(dtype).itemsize
itemsize(dtype) == IF dtype = "float32" THEN 4 ELSE 1

\* reduce(lambda x, y: x * y, shape)
RECURSIVE Product(_)
Product(shape) ==
  IF Len(shape) = 1 THEN shape[1] ELSE Head(shape) * Product(Tail(shape))

size_bytes(shape, dtype) == itemsize(dtype) * Product(shape)

\* self._mem_path
mem_path(os, uuid, name) ==
  IF os = "nt" THEN "/HOLODECK_MEM" \o uuid \o "_" \o name
  ELSE "/dev/shm/HOLODECK_MEM" \o uuid \o "_" \o name

Zeros(n) == [i \in 1..n |-> 0]

\* the bytes of one element (_numpy_to_ctype): little-endian IEEE 754 for
\* float32, two's complement for byte
OtherFloat == 999
FloatBytes(v) ==
  CASE v = 0 -> <<0, 0, 0, 0>>
    [] v = 1 -> <<0, 0, 128, 63>>
    [] v = 2 -> <<0, 0, 0, 64>>
    [] v = 3 -> <<0, 0, 64, 64>>
    [] v = 4 -> <<0, 0, 128, 64>>
EncodeElem(dtype, v) ==
  CASE dtype = "float32" -> FloatBytes(v)
    [] dtype = "uint8" -> <<v % 256>>
    [] dtype = "bool" -> <<IF v THEN 1 ELSE 0>>
    [] dtype = "byte" -> <<(v + 256) % 256>>
DecodeElem(dtype, bs) ==
  CASE dtype = "float32" ->
         IF \E v \in 0..4 : FloatBytes(v) = bs
           THEN CHOOSE v \in 0..4 : FloatBytes(v) = bs
           ELSE OtherFloat
    [] dtype = "uint8" -> bs[1]
    [] dtype = "bool" -> bs[1] # 0
    [] dtype = "byte" -> IF bs[1] >= 128 THEN bs[1] - 256 ELSE bs[1]

RECURSIVE Encode(_, _)
Encode(dtype, vals) ==
  IF vals = <<>> THEN <<>>
  ELSE EncodeElem(dtype, Head(vals)) \o Encode(dtype, Tail(vals))
Decode(dtype, bytes, n) ==
  [i \in 1..n |->
     DecodeElem(dtype, SubSeq(bytes, (i - 1) * itemsize(dtype) + 1,
                              i * itemsize(dtype)))]

\* the arrays written in a run: every array of one or two elements over two
\* values of the type, and one pattern for the longer shapes
ElemValues(dtype) ==
  CASE dtype = "float32" -> {0, 1}
    [] dtype = "uint8" -> {0, 255}
    [] dtype = "bool" -> BOOLEAN
    [] dtype = "byte" -> {0, -1}
Pattern(dtype, i) ==
  CASE dtype = "float32" -> i
    [] dtype = "uint8" -> i
    [] dtype = "bool" -> i % 2 = 1
    [] dtype = "byte" -> 0 - i
Arrays(dtype, n) ==
  IF n <= 2 THEN [1..n -> ElemValues(dtype)]
  ELSE {[i \in 1..n |-> Pattern(dtype, i)]}

ShmHistoryInit ==
  [ stage |-> "none",   \* none, written, opened, read: write, then open, then read
    writer |-> 0,       \* the handle written through
    vals |-> <<>>,      \* the array written
    opener |-> 0,       \* the handle opened after the write
    result |-> <<>> ]   \* the array read through the opener

\* was handle i constructed with the arguments b (name, shape, dtype, uuid)
SameBuffer(hs, i, b) ==
  /\ i \in 1..Len(hs)
  /\ hs[i].uuid = b.uuid /\ hs[i].name = b.name
  /\ hs[i].shape = b.shape /\ hs[i].dtype = b.dtype

\* os.open(O_CREAT | O_TRUNC | O_RDWR), os.ftruncate(f, size_bytes): the file
\* is created, or emptied, and is size_bytes zero bytes long
posix_open(m, exists, ino, sz) ==
  IF exists THEN [m EXCEPT ![ino] = Zeros(sz)] ELSE Append(m, Zeros(sz))

\* Shmem.__init__; a handle also records that unlink() was called on it
\* (unlinked), which the properties read
ShmCreate ==
  /\ pc = "shmem"
  /\ Len(handles) < MaxHandles
  /\ \E b \in Buffers :
       LET shape == b.shape
           dtype == b.dtype
           path == mem_path(os_name, b.uuid, b.name)
           sz == size_bytes(shape, dtype)
           exists == path \in DOMAIN fs
           ino == IF exists THEN fs[path] ELSE Len(mem) + 1
           hd == [uuid |-> b.uuid, name |-> b.name, path |-> path,
                  shape |-> shape, dtype |-> dtype, ino |-> ino,
                  np_array |-> TRUE, unlinked |-> FALSE]
           opened == /\ handles' = Append(handles, hd)
                     /\ fs' = (path :> ino) @@ fs
                     /\ shm_result' = "ok"
                     /\ sh' = IF sh.stage = "written"
                                   /\ SameBuffer(handles, sh.writer, b)
                                THEN [sh EXCEPT !.stage = "opened",
                                                !.opener = Len(handles) + 1]
                                ELSE ShmHistoryInit
       IN CASE os_name = "posix" ->
                 /\ mem' = posix_open(mem, exists, ino, sz)
                 /\ opened
            [] os_name = "nt" ->
                 IF exists /\ Len(mem[ino]) < sz
                   THEN /\ shm_result' = "OSError"
                        /\ sh' = ShmHistoryInit
                        /\ UNCHANGED <<fs, mem, handles>>
                   ELSE /\ mem' = IF exists THEN mem ELSE Append(mem, Zeros(sz))
                        /\ opened
            [] OTHER ->
                 /\ shm_result' = "HolodeckException"
                 /\ sh' = ShmHistoryInit
                 /\ UNCHANGED <<fs, mem, handles>>
  /\ UNCHANGED <<qh, exitVars, envVars>>

\* np_array[:] = vals through handle i
WriteThrough(i) ==
  /\ pc = "shmem"
  /\ LET hd == handles[i]
           n == Product(hd.shape)
           sz == size_bytes(hd.shape, hd.dtype)
       IN \E vals \in Arrays(hd.dtype, n) :
            IF ~hd.np_array
              THEN /\ shm_result' = "AttributeError"
                   /\ sh' = ShmHistoryInit
                   /\ UNCHANGED mem
            ELSE IF Len(mem[hd.ino]) < sz
              THEN /\ shm_result' = "SIGBUS"
                   /\ sh' = ShmHistoryInit
                   /\ UNCHANGED mem
            ELSE /\ mem' = [mem EXCEPT ![hd.ino] =
                              Encode(hd.dtype, vals) \o SubSeq(@, sz + 1, Len(@))]
                 /\ shm_result' = "ok"
                 /\ sh' = [ShmHistoryInit EXCEPT !.stage = "written",
                                                 !.writer = i, !.vals = vals]
  /\ UNCHANGED <<qh, exitVars, envVars, fs, handles>>

ShmWrite == \E i \in 1..Len(handles) : WriteThrough(i)

\* np_array read through handle i
ReadThrough(i) ==
  /\ pc = "shmem"
  /\ LET hd == handles[i]
           n == Product(hd.shape)
           sz == size_bytes(hd.shape, hd.dtype)
           res == IF ~hd.np_array THEN "AttributeError"
                  ELSE IF Len(mem[hd.ino]) < sz THEN "SIGBUS" ELSE "ok"
       IN /\ shm_result' = res
          /\ sh' = IF sh.stage = "opened" /\ sh.opener = i
                     THEN [sh EXCEPT !.stage = "read",
                                     !.result = IF res = "ok"
                                                  THEN Decode(hd.dtype, mem[hd.ino], n)
                                                  ELSE <<>>]
                   ELSE IF sh.stage = "read" THEN ShmHistoryInit ELSE sh
  /\ UNCHANGED <<qh, exitVars, envVars, fs, mem, handles>>

ShmRead == \E i \in 1..Len(handles) : ReadThrough(i)

\* Shmem.unlink of handle i
Unlink(i) ==
  /\ pc = "shmem"
  /\ LET hd == handles[i] IN
       CASE os_name = "posix" ->
              IF ~hd.np_array
                THEN /\ shm_result' = "AttributeError"
                     /\ UNCHANGED <<fs, handles>>
              ELSE /\ handles' = [handles EXCEPT ![i].np_array = FALSE,
                                                 ![i].unlinked = TRUE]
                   /\ IF hd.path \in DOMAIN fs
                        THEN /\ fs' = [q \in DOMAIN fs \ {hd.path} |-> fs[q]]
                             /\ shm_result' = "ok"
                        ELSE /\ shm_result' = "FileNotFoundError"
                             /\ UNCHANGED fs
         [] os_name = "nt" ->
              /\ shm_result' = "ok"
              /\ handles' = [handles EXCEPT ![i].unlinked = TRUE]
              /\ UNCHANGED fs
         [] OTHER ->
              /\ shm_result' = "HolodeckException"
              /\ UNCHANGED <<fs, handles>>
  /\ sh' = ShmHistoryInit
  /\ UNCHANGED <<qh, exitVars, envVars, mem>>

ShmUnlink == \E i \in 1..Len(handles) : Unlink(i)

\* ------------------------------------------ teardown (__on_exit__) on its own
MaxSignals == 2      \* SIGHUP/SIGTERM/SIGINT deliveries per run

ExitHistoryInit ==
  [ cleaned |-> 0,        \* calls of clean_up_resources()
    unlinked |-> 0,       \* calls of _client.unlink()
    killed |-> 0,         \* calls of _world_process.kill()
    signals |-> 0,        \* signals delivered
    nested |-> FALSE,     \* a signal arrived while __on_exit__ was executing
    context |-> FALSE,    \* __exit__ has been called
    atexit |-> FALSE,     \* the atexit hook has been called
    error |-> "none" ]    \* the exception an __on_exit__ ended with

\* hasattr(self, "_client"): __init__ got past line 140
has_client == ctor_done # "loading_failed"

ExitFrame(by) == [at |-> "check", by |-> by]

\* __exit__ of the with statement: calls __on_exit__
ContextExit ==
  /\ pc = "on_exit"
  /\ exit_phase = "running" /\ exit_stack = <<>>
  /\ ctor_done = "complete" /\ ~xh.context
  /\ exit_stack' = <<ExitFrame("context")>>
  /\ xh' = [xh EXCEPT !.context = TRUE]
  /\ UNCHANGED <<qh, shmVars, envVars, _exited, exit_phase, ctor_done>>

\* the interpreter shuts down: the hook of atexit.register(self.__on_exit__),
\* registered only if the environment started the world process
AtExit ==
  /\ pc = "on_exit"
  /\ exit_stack = <<>>
  /\ \/ /\ exit_phase = "running"
        /\ exit_phase' = "atexit"
        /\ UNCHANGED exit_stack
     \/ /\ exit_phase = "atexit"
        /\ IF has_world_process /\ ~xh.atexit
             THEN exit_stack' = <<ExitFrame("atexit")>> /\ UNCHANGED exit_phase
             ELSE exit_phase' = "done" /\ UNCHANGED exit_stack
  /\ xh' = IF exit_phase = "atexit" THEN [xh EXCEPT !.atexit = TRUE] ELSE xh
  /\ UNCHANGED <<qh, shmVars, envVars, _exited, ctor_done>>

\* a signal is delivered between two bytecodes of the main thread, inside
\* __on_exit__ or outside: graceful_exit calls __on_exit__, then sys.exit()
GracefulExit ==
  /\ pc = "on_exit"
  /\ ctor_done = "complete"
  /\ exit_phase # "done"
  /\ xh.signals < MaxSignals
  /\ exit_stack' = Append(exit_stack, ExitFrame("signal"))
  /\ xh' = [xh EXCEPT !.signals = @ + 1,
                      !.nested = @ \/ exit_stack # <<>>]
  /\ UNCHANGED <<qh, shmVars, envVars, _exited, exit_phase, ctor_done>>

ExitTop == exit_stack[Len(exit_stack)]

ExitAt(l) == exit_stack # <<>> /\ ExitTop.at = l

ExitGoto(l) == exit_stack' = [exit_stack EXCEPT ![Len(exit_stack)].at = l]

\* __on_exit__ returns: to __exit__ or the atexit machinery, or to
\* graceful_exit, whose sys.exit() unwinds every interrupted call
ExitReturn ==
  IF ExitTop.by = "signal"
    THEN exit_stack' = <<>> /\ exit_phase' = "atexit"
    ELSE exit_stack' = SubSeq(exit_stack, 1, Len(exit_stack) - 1)
         /\ UNCHANGED exit_phase

\* if hasattr(self, "_exited"): return
OnExitCheck ==
  /\ pc = "on_exit"
  /\ ExitAt("check")
  /\ IF _exited THEN ExitReturn
                ELSE ExitGoto("clean_up") /\ UNCHANGED exit_phase
  /\ UNCHANGED <<qh, shmVars, envVars, _exited, ctor_done, xh>>

\* self.clean_up_resources(): self._command_center is read without hasattr
CleanUpResources ==
  /\ pc = "on_exit"
  /\ ExitAt("clean_up")
  /\ IF has_client
       THEN /\ ExitGoto("unlink")
            /\ xh' = [xh EXCEPT !.cleaned = @ + 1]
       ELSE /\ exit_stack' = <<>>
            /\ xh' = [xh EXCEPT !.cleaned = @ + 1, !.error = "AttributeError"]
  /\ UNCHANGED <<qh, shmVars, envVars, _exited, exit_phase, ctor_done>>

\* if hasattr(self, "_client"): self._client.unlink()
ClientUnlink ==
  /\ pc = "on_exit"
  /\ ExitAt("unlink")
  /\ ExitGoto("kill")
  /\ xh' = IF has_client THEN [xh EXCEPT !.unlinked = @ + 1] ELSE xh
  /\ UNCHANGED <<qh, shmVars, envVars, _exited, exit_phase, ctor_done>>

\* if hasattr(self, "_world_process"): kill() and wait(5)
KillWorldProcess ==
  /\ pc = "on_exit"
  /\ ExitAt("kill")
  /\ ExitGoto("set")
  /\ xh' = IF has_world_process THEN [xh EXCEPT !.killed = @ + 1] ELSE xh
  /\ UNCHANGED <<qh, shmVars, envVars, _exited, exit_phase, ctor_done>>

\* self._exited = True
SetExited ==
  /\ pc = "on_exit"
  /\ ExitAt("set")
  /\ _exited' = TRUE
  /\ ExitReturn
  /\ UNCHANGED <<qh, shmVars, envVars, ctor_done, xh>>

\* ---------------------------------------------------------- specification
vars == <<envVars, unitVars>>

EnvNext ==
  \/ StartProcess \/ LoadingAcquired \/ LoadingTimeout \/ ClientInit
  \/ CtorReset \/ CtorSignals
  \/ ResetBegin \/ ResetClear
  \/ StepAct \/ HandleBuffer \/ Release \/ AcquireOk \/ AcquireTimeout
  \/ CheckMaxTick
  \/ UserReset \/ UserTick \/ UserStep \/ UserAct \/ UserEnqueue
  \/ EngineLoaded \/ EngineBeginTick \/ EngineEndTick \/ EngineDie

\* the Shmem objects and the queue history before anything used them
ShmQueueInit ==
  /\ qh = QueueHistoryInit
  /\ fs = <<>>
  /\ mem = <<>>
  /\ handles = <<>>
  /\ shm_result = "none"
  /\ sh = ShmHistoryInit

\* no teardown begun
ExitIdle ==
  /\ _exited = FALSE
  /\ exit_stack = <<>>
  /\ exit_phase = "running"
  /\ xh = ExitHistoryInit

UnitInit == ShmQueueInit /\ ExitIdle /\ ctor_done = "complete"

\* the environment left out of a specification of one component
EnvParkedWith(label, sw) ==
  /\ start_world = sw
  /\ show_viewport = TRUE
  /\ _pre_start_steps = 0
  /\ _max_ticks = sys_maxsize
  /\ _initial_agent_defs = <<>>
  /\ pc = label
  /\ stack = <<>>
  /\ _total_ticks = 0
  /\ _initial_reset = FALSE
  /\ _reset_ptr = FALSE
  /\ agents = {}
  /\ action_buf = [n \in AgentNames |-> 0]
  /\ _agent = None
  /\ has_world_process = sw
  /\ queue = <<>>
  /\ command_buffer = <<>>
  /\ outstanding = 0
  /\ failed = FALSE
  /\ sem1 = 0
  /\ sem2 = 0
  /\ loading_sem = 0
  /\ engine_pc = "none"
  /\ last_error = "none"
  /\ calls = 0
  /\ max_calls = MaxCalls
  /\ h = HistoryInit

EnvParked(label) == EnvParkedWith(label, FALSE)

Init == EnvInit /\ UnitInit

Next == EnvNext

\* the environment driving the engine
Spec == Init /\ [][Next]_vars

\* the command queue on its own
QueueInit == os_name = "posix" /\ EnvParked("command_center") /\ UnitInit

QueueNext == QEnqueue \/ QHandleBuffer \/ QResetClear

QueueSpec == QueueInit /\ [][QueueNext]_vars

\* Shmem on its own
ShmInit == os_name \in {"posix", "nt", "java"} /\ EnvParked("shmem") /\ UnitInit

ShmNext == ShmCreate \/ ShmWrite \/ ShmRead \/ ShmUnlink

ShmSpec == ShmInit /\ [][ShmNext]_vars

\* the teardown on its own: the environment constructed (or its construction
\* failed while the world process was loading), then the process ends
ExitInit ==
  /\ os_name \in {"posix", "nt"}
  /\ \E sw \in BOOLEAN :
       /\ EnvParkedWith("on_exit", sw)
       /\ ctor_done \in {"complete"}
            \cup (IF sw THEN {"loading_failed", "acquire_failed"} ELSE {})
  /\ ShmQueueInit
  /\ ExitIdle

ExitNext ==
  \/ ContextExit \/ AtExit \/ GracefulExit
  \/ OnExitCheck \/ CleanUpResources \/ ClientUnlink \/ KillWorldProcess
  \/ SetExited

ExitSpec == ExitInit /\ [][ExitNext]_vars

\* the process does end and no call of the teardown hangs
ExitFairSpec == ExitSpec /\ WF_vars(ExitNext)

\* the tick counter on its own: an attached environment without agents, whose
\* user only ticks and resets (catching what they raise) and whose engine
\* answers every release
LimitInit ==
  /\ os_name \in {"posix", "nt"}
  /\ start_world = FALSE
  /\ show_viewport = TRUE
  /\ _pre_start_steps \in 0..MaxPreStart
  /\ _max_ticks \in 1..MaxTickLimit
  /\ _initial_agent_defs = <<>>
  /\ max_calls = MaxLimitCalls
  /\ EnvStart
  /\ UnitInit

LimitNext ==
  \/ ClientInit \/ CtorReset \/ CtorSignals
  \/ ResetBegin \/ ResetClear
  \/ HandleBuffer \/ Release \/ AcquireOk \/ CheckMaxTick
  \/ UserReset \/ UserTick
  \/ EngineLoaded \/ EngineBeginTick \/ EngineEndTick

LimitSpec == LimitInit /\ [][LimitNext]_vars

\* ------------------------------------------------------------- properties

C2_FlushOnceBeforeRelease ==
  /\ h.flushes_since_rel <= 1
  /\ pc = "release" => h.flushes_since_rel = 1
  /\ pc \in {"acquire", "check_max_tick"} => h.flushes_since_rel = 0

\* a user's tick() about to release, the queued command flushed before it
C2_Witness ==
  /\ pc = "release"
  /\ UserCycle(stack)
  /\ h.flushes_since_rel = 1
  /\ command_buffer # <<>>
  /\ queue = <<>>

C4_StallIffAlive ==
  last_error \in {"stall", "crash"}
    => (last_error = "stall" <=> h.alive_at_timeout)

\* C5: once an acquire has timed out, no later call issues a release() or an
\* acquire() on the channel.
C5_NoUseAfterTimeout == ~h.used_after_timeout

\* C6: a timeout ends the call at once with the stall or crash exception: one
\* acquire attempt in the cycle, no flush or release after it, and
\* _total_ticks as it was.
C6_TimeoutPropagates ==
  [][h'.timeouts > h.timeouts =>
       /\ pc' \in {"idle", "ctor_failed"}
       /\ stack' = <<>>
       /\ last_error' \in {"stall", "crash"}
       /\ _total_ticks' = _total_ticks
       /\ h'.acq_attempts = 1
       /\ h'.flushes_since_rel = h.flushes_since_rel
       /\ <<queue, command_buffer, sem1, outstanding>>'
            = <<queue, command_buffer, sem1, outstanding>>]_vars

\* the first tick of a user's reset() has timed out
C6_Witness ==
  /\ pc = "idle"
  /\ last_error \in {"stall", "crash"}
  /\ h.timeouts = 1
  /\ h.acq_attempts = 1
  /\ _total_ticks = -4

\* C7: a command pending in the queue when reset() is called is never flushed
\* into the command buffer, by that reset() or later.
C7_PendingNeverSent == ~h.sent_stale

C10_RoundTrip == sh.stage = "read" => sh.result = sh.vals

\* C11: two buffers constructed with different session ids never have the
\* same shared-memory object name, and never share a region, so a write in one
\* session is not visible through a buffer of another.
C11_SessionsNeverCollide ==
  \A i, j \in 1..Len(handles) :
    handles[i].uuid # handles[j].uuid
      => (handles[i].path # handles[j].path /\ handles[i].ino # handles[j].ino)

\* C12: a Shmem construction whose object name is that of a live region (one
\* not unlinked, or mapped by another handle) fails with an error, yields no
\* handle, and leaves the region's contents and size as they were.
C12_CollisionFails ==
  [][ShmCreate =>
       /\ \A p \in DOMAIN fs : p \in DOMAIN fs' /\ mem'[fs'[p]] = mem[fs[p]]
       /\ Len(handles') > Len(handles)
            => handles'[Len(handles')].path \notin DOMAIN fs
       /\ Len(handles') = Len(handles) => shm_result' # "ok"]_vars

\* C13: from its creation until its unlink a region keeps the byte size given
\* at creation: no step, the construction of a further handle on the same
\* name included, changes the size of a region that exists before and after.
C13_SizeFixed ==
  [][\A p \in DOMAIN fs :
       (p \in DOMAIN fs' /\ fs'[p] = fs[p])
         => Len(mem'[fs[p]]) = Len(mem[fs[p]])]_vars

\* C14: under every interleaving of __exit__, the atexit hook and the signal
\* handlers, clean_up_resources(), the client's unlink and the kill of the
\* world process are each executed at most once.
C14_TeardownOnce == xh.cleaned <= 1 /\ xh.unlinked <= 1 /\ xh.killed <= 1

\* C15: once unlink() has been called on a Shmem object, every later use of
\* it (a read or a write of its array, a second unlink()) ends with an error,
\* on posix and on nt alike.
C15_UseAfterUnlinkFails ==
  [][\A i \in 1..Len(handles) :
       (handles[i].unlinked /\ (ReadThrough(i) \/ WriteThrough(i) \/ Unlink(i)))
         => shm_result' # "ok"]_vars

\* no acquire() or release() of the handshake has been called or is about to be
NoHandshake ==
  /\ h.acq_attempts = 0 /\ outstanding = 0 /\ ~failed
  /\ pc \notin {"acquire", "release"}

\* C16: when the environment starts the world process, no acquire() or
\* release() of the handshake is performed before the loading signal has been
\* observed; if the wait for it times out, the construction fails with the
\* HolodeckException and no handshake operation is performed at all.
C16_HandshakeAfterLoading ==
  /\ (start_world /\ ~h.loaded) => NoHandshake
  /\ h.load_timeout
       => (pc = "ctor_failed" /\ last_error = "load_timeout" /\ NoHandshake)

\* the wait for the loading signal of a live, slow engine has timed out
C16_Witness ==
  /\ start_world
  /\ h.load_timeout
  /\ pc = "ctor_failed"
  /\ engine_pc = "loading"

\* C17: the tick-limit exception of check_max_tick() is raised only after the
\* acquire() of the current cycle has returned, never between a release() and
\* its acquire(): the channel is idle whenever the exception propagates.
C17_TickCapAfterAcquire ==
  [][(pc = "check_max_tick" /\ _total_ticks' = _max_ticks) =>
       /\ last_error' = "tick_limit" /\ stack' = <<>>
       /\ h.acq_attempts = 1
       /\ outstanding = 0 /\ outstanding' = 0
       /\ sem1' = 0 /\ ~failed']_vars

\* a user's tick() has ended with the tick-limit exception
C17_Witness ==
  /\ pc = "idle"
  /\ last_error = "tick_limit"
  /\ _total_ticks = _max_ticks
  /\ calls > 0
  /\ outstanding = 0

\* C18: the control side writes to shared memory (the reset flag, the command
\* buffer by a flush, the action buffers by act() and clear_action()) only
\* while no release is outstanding: no such write happens between a release()
\* and its matching successful acquire().
C18_WritesOnlyWhenIdle ==
  [][(ClientInit \/ ResetBegin \/ HandleBuffer \/ StepAct \/ UserAct)
       => outstanding = 0]_vars

\* C19: once the construction has completed, tick() can be called again and
\* again without a reset() by the user: no call raises the "You must call
\* .reset()" error, every cycle of a tick() that reaches its end is a complete
\* handshake, and with no agents, the default max_ticks and an engine that
\* answers in time no call raises at all.
C19_TickWithoutReset ==
  /\ last_error # "no_reset"
  /\ pc = "idle" => _initial_reset
  /\ (UserCycle(stack) /\ pc = "check_max_tick")
       => (h.acq_attempts = 1 /\ outstanding = 0 /\ h.flushes_since_rel = 0)
  /\ (pc = "idle" /\ _initial_agent_defs = <<>> /\ _max_ticks = sys_maxsize
        /\ h.timeouts = 0)
       => last_error = "none"

\* the second call in a row, a tick(), ends a cycle; the call before it ran
\* cycles too and no reset() was called in between
C19_Witness ==
  /\ UserCycle(stack) /\ stack[1].fn = "tick"
  /\ pc = "check_max_tick"
  /\ calls = 2
  /\ _total_ticks >= 1
  /\ _initial_agent_defs = <<>> /\ _max_ticks = sys_maxsize
  /\ h.timeouts = 0

\* a spawn command enqueued since the last reset() call is in the buffer
HasSpawn(buf) ==
  \E i \in 1..Len(buf) : buf[i].tag = "SpawnAgent" /\ ~buf[i].stale

\* C20: a reset() that returns has performed exactly 3 + (pre_start_steps + 1)
\* handshake cycles: three cycles come before the queue clear and the agents,
\* the reset flag is raised when the first of them is released, and the spawn
\* commands of the new episode are flushed in the fourth cycle, never in the
\* first three.
C20_ResetCycles ==
  /\ [](/\ pc = "reset_clear" => h.reset_cycles = 3
        /\ (InReset(stack) /\ h.reset_cycles = 0 /\ pc = "release"
               /\ release_ok(outstanding, failed)) => _reset_ptr
        /\ (InReset(stack) /\ h.reset_cycles < 3 /\ pc \in {"release", "acquire"})
             => ~HasSpawn(command_buffer)
        /\ (InReset(stack) /\ h.reset_cycles = 3 /\ pc \in {"release", "acquire"})
             => (HasSpawn(command_buffer)
                   <=> \E i \in 1..Len(_initial_agent_defs) :
                         ~_initial_agent_defs[i].existing))
  /\ [][(InReset(stack) /\ ~InReset(stack') /\ last_error' = "none")
          => h'.reset_cycles = 3 + (_pre_start_steps + 1)]_vars

\* a reset() of the user with one start step has returned after five cycles,
\* its agent spawned
C20_Witness ==
  /\ pc = "idle" /\ calls > 0
  /\ last_error = "none"
  /\ _pre_start_steps = 1
  /\ h.reset_cycles = 5
  /\ agents # {}
  /\ _total_ticks = 0

\* C21: _total_ticks counts the user's ticks only: it is 0 whenever reset()
\* returns normally, and k after k further handshake cycles completed by
\* tick()/step() calls of the user with no reset() in between.
C21_CountsUserTicks ==
  /\ []((~InReset(stack) /\ h.reset_cycles = 3 + (_pre_start_steps + 1)
          /\ pc # "check_max_tick")
        => _total_ticks = h.user_cycles)
  /\ [][(InReset(stack) /\ ~InReset(stack') /\ last_error' = "none")
          => _total_ticks' = 0]_vars

\* two cycles of the user completed after a reset(), the counter at two
C21_Witness ==
  /\ pc = "idle"
  /\ last_error = "none"
  /\ h.reset_cycles = 3 + (_pre_start_steps + 1)
  /\ h.user_cycles = 2
  /\ _total_ticks = 2

\* C22: no handshake cycle run by reset() raises the tick-limit exception,
\* whatever _total_ticks was when reset() was called (also a value reached by
\* ticking on after a caught tick-limit exception) and whatever max_ticks >= 1.
C22_ResetNeverHitsLimit ==
  [][(InReset(stack) /\ pc = "check_max_tick") => last_error' # "tick_limit"]_vars

\* C23: after a reset the max_ticks-th handshake cycle of the user raises the
\* tick-limit exception and no later one completes without raising it:
\* _total_ticks never exceeds max_ticks where a tick()/step() returned normally.
C23_TickLimitBounds ==
  /\ []((pc = "idle" /\ last_error = "none") => _total_ticks <= _max_ticks)
  /\ [][(pc = "check_max_tick" /\ UserCycle(stack)
          /\ h.reset_cycles = 3 + (_pre_start_steps + 1)
          /\ h.user_cycles >= _max_ticks)
         => last_error' = "tick_limit"]_vars

\* C24: a tick() or step() called while _initial_reset is false raises
\* HolodeckException and changes nothing: no flush, release or acquire, and
\* _total_ticks, the command queue and the agents stay as they were.  No run
\* of the environment has such a call (C19): the constructor returns only
\* after its reset() has set the flag, and nothing clears it.
C24_NoResetChangesNothing ==
  [][(~_initial_reset /\ (UserTick \/ UserStep))
       => (/\ last_error' = "no_reset"
           /\ pc' = "idle"
           /\ UNCHANGED <<_total_ticks, queueVars, agentVars, chanVars, h>>)]_vars

\* C25: every successful acquire() follows a release() signalled before it and
\* not yet matched (none is taken from Idle), from construction on: whenever
\* the control side is between cycles, and no acquire has timed out, as many
\* acquires have succeeded as releases were signalled.
C25_AcquireMatchesRelease ==
  /\ h.acq_minus_rel <= 0
  /\ (pc \in {"idle", "handle_buffer"} /\ h.timeouts = 0) => h.acq_minus_rel = 0

\* C26: once the environment has spawned a world process, the teardown run
\* when the process ends eventually kills it and marks the environment
\* exited, also when __init__ failed after the spawn (loading timeout, or a
\* timeout of the first acquire).
C26_TeardownKills == has_world_process ~> (xh.killed >= 1 /\ _exited)

\* C27: a tick(num_ticks=n) or step(action, ticks=n) that ends without an
\* error has performed exactly n handshake cycles, each a flush, then a
\* release, then an acquire; step() has given the action to the main agent
\* before the flush of each cycle; with n = 0 nothing is flushed, released or
\* acquired and the call returns None.
C27_ExactlyNCycles ==
  /\ [](h.call_cycles <= h.call_n)
  /\ []((UserCycle(stack) /\ pc = "release") => h.flushes_since_rel = 1)
  /\ []((UserCycle(stack) /\ pc = "acquire" /\ h.timeouts = 0)
          => (outstanding = 1 /\ h.flushes_since_rel = 0))
  /\ []((UserCycle(stack) /\ stack[1].fn = "step" /\ _agent # None
           /\ pc \in {"handle_buffer", "release", "acquire"})
          => action_buf[_agent] = stack[1].a)
  /\ [][(UserCycle(stack) /\ pc' = "idle" /\ last_error' = "none")
          => (h'.call_cycles = h'.call_n /\ h'.ret = "state")]_vars
  /\ [][((UserTick \/ UserStep) /\ _initial_reset /\ h'.call_n = 0)
          => (/\ pc' = "idle" /\ last_error' = "none" /\ h'.ret = "None"
              /\ h'.call_cycles = 0
              /\ UNCHANGED <<chanVars, queueVars, agentVars, _total_ticks>>)]_vars

\* a step(a, ticks = 2) on an environment with a main agent has returned
\* after two cycles, the agent's buffer holding the action
C27_Witness ==
  /\ pc = "idle" /\ last_error = "none" /\ calls = 1
  /\ h.call_n = 2 /\ h.call_cycles = 2 /\ h.ret = "state"
  /\ _agent # None /\ action_buf[_agent] # 0

====
